---- MODULE Spec2Model ----
(***************************************************************************)
(* Model of the fftokens connector (internal/tokens/fftokens/fftokens.go): *)
(* the event loop that reads frames from the websocket, dispatches them to *)
(* the handlers, invokes the callbacks and acknowledges the frames.        *)
(*                                                                         *)
(* Strings of the program are TLA+ strings; the absent JSON field and the  *)
(* empty string are both "" (JSONObject.GetString returns "" for both).    *)
(* Texts that the code parses (the amount, the opaque "data" string) are   *)
(* sequences of tokens so that parsing is computed, not assumed.           *)
(***************************************************************************)
EXTENDS Integers, Sequences, FiniteSets, TLC

VARIABLES
    initState,     \* result of Init: "none" (not called), "cfgerr", "wserr", "ok"
    wsconn,        \* ft.wsconn: "none", "created", "connected", "closed"
    ctxCancelled,  \* ft.ctx is done
    recvClosed,    \* the peer has closed wsconn.Receive()
    offered,       \* frame in flight on wsconn.Receive(): <<>> or <<frame>>
    loopPc,        \* position of eventLoop: "none", "select", "callback", "ack", "done"
    err,           \* eventLoop's local err: "nil", "cberr", "senderr"
    received,      \* frames taken from wsconn.Receive(), in arrival order
    log,           \* history of callback invocations, returns and wsconn.Send calls
    startErr,      \* result of the last Start: "none" (not called), "nil", "err"
    exitLog,       \* what eventLoop logged when it returned, "none" before
    client,        \* ft.client, the command transport: "none", "created"
    loopsLaunched, \* number of eventLoop goroutines Init has launched
    cmdPc,         \* the caller of a command: "idle", "ready", "callback", "returned"
    cmd,           \* the command being called: operation and arguments
    cmdLog,        \* requests, callback invocations and returns of the command
    cmdResult,     \* what the command returned to its caller
    configURL,     \* the URL Init found in its configuration, "unset" before
    configuredName \* ft.configuredName, "" before Init

\* The state of the command path.
cmdVars == <<cmdPc, cmd, cmdLog, cmdResult>>

vars == <<initState, wsconn, ctxCancelled, recvClosed, offered, loopPc, err,
          received, log, startErr, exitLog, client, loopsLaunched, cmdPc, cmd,
          cmdLog, cmdResult, configURL, configuredName>>

\* ------------------------------------------------------------------ bounds

\* Total number of frames the peer delivers on one connection.
MaxFrames == 2

\* ------------------------------------------------------------- constants

messageReceipt == "receipt"
messageTokenPool == "token-pool"
messageTokenMint == "token-mint"
messageTokenBurn == "token-burn"
messageTokenTransfer == "token-transfer"
messageTokenApproval == "token-approval"

TokenTransferTypeMint == "mint"
TokenTransferTypeBurn == "burn"
TokenTransferTypeTransfer == "transfer"

TransactionTypeTokenPool == "token_pool"
TransactionTypeTokenTransfer == "token_transfer"
TransactionTypeTokenApproval == "token_approval"

OpStatusSucceeded == "Succeeded"
OpStatusFailed == "Failed"

\* The names Init can be given for a connector instance.
ConnectorNames == {"erc20", "erc721"}

\* The name the connector of the event-loop specification is given; the
\* command and decoder specifications draw theirs from ConnectorNames.
LoopConnectorNames == {"erc20"}

\* ft.Name()
Name == "fftokens"

\* Strings that fftypes.ParseUUID accepts.
UUIDs == {"uuid-1", "uuid-2"}

Digits == {"0", "1", "2", "3", "4", "5", "6", "7", "8", "9"}

\* ------------------------------------------------------- payloads, frames

\* fftypes.JSONObject of a frame's "data", by the fields the handlers read.
EmptyPayload ==
    [type |-> "", poolLocator |-> "", standard |-> "", symbol |-> "",
     subject |-> "", signer |-> "", from |-> "", to |-> "", amount |-> <<>>,
     tokenIndex |-> "", uri |-> "", operator |-> "", approved |-> FALSE,
     id |-> "", success |-> FALSE, message |-> "", transactionHash |-> "",
     data |-> <<>>, blockchainId |-> "", blockchainTxHash |-> ""]

\* A payload with every field any handler requires, and no "data" string.
FullPayload ==
    [EmptyPayload EXCEPT !.type = "fungible", !.poolLocator = "pool1",
                         !.subject = "subj1", !.signer = "0xsigner",
                         !.from = "0xfrom", !.to = "0xto",
                         !.amount = <<"1", "0", "0">>,
                         !.operator = "0xoperator", !.approved = TRUE]

\* FullPayload without the pool locator, which all five handlers require.
NoLocatorPayload == [FullPayload EXCEPT !.poolLocator = ""]

\* A receipt payload with a valid operation id.
ReceiptPayload ==
    [EmptyPayload EXCEPT !.id = "uuid-1", !.success = TRUE,
                         !.transactionHash = "0xabc"]

\* Receipt payloads: valid operation id, missing id, unparseable id.
ReceiptPayloads ==
    {ReceiptPayload, EmptyPayload, [EmptyPayload EXCEPT !.id = "not-a-uuid"]}

\* Envelope identifiers used by the peer: none, or e1; a few frames use e2.
FrameIDs == {"", "e1"}

\* A frame on the wire. parses = FALSE stands for bytes that json.Unmarshal
\* rejects as a wsEvent; the other fields are what Unmarshal stored in msg
\* before it failed: nothing when the bytes are not JSON, the members
\* before the offending one when a member has the wrong type.
MalformedFrames ==
    {[parses |-> FALSE, event |-> "", id |-> "", data |-> EmptyPayload],
     [parses |-> FALSE, event |-> messageTokenPool, id |-> "e1",
      data |-> FullPayload]}

TokenKinds ==
    {messageTokenPool, messageTokenMint, messageTokenBurn,
     messageTokenTransfer, messageTokenApproval}

\* The frames the peer can deliver in the event-loop specification.
Frames ==
    MalformedFrames
    \cup [parses : {TRUE}, event : TokenKinds, id : FrameIDs,
          data : {FullPayload}]
    \cup [parses : {TRUE}, event : TokenKinds, id : {"e1"},
          data : {NoLocatorPayload}]
    \cup [parses : {TRUE}, event : {messageTokenPool}, id : {"e2"},
          data : {FullPayload}]
    \cup [parses : {TRUE}, event : {messageTokenPool}, id : {""},
          data : {NoLocatorPayload}]
    \cup [parses : {TRUE}, event : {"token-unknown"}, id : {"", "e2"},
          data : {FullPayload}]
    \cup [parses : {TRUE}, event : {messageReceipt}, id : {"e1"},
          data : ReceiptPayloads]
    \cup [parses : {TRUE}, event : {messageReceipt}, id : {""},
          data : {ReceiptPayload}]

\* ------------------------------------------------------------ the codec

\* fftypes.ParseUUID succeeds
IsUUID(s) == s \in UUIDs

\* big.Int.SetString(value, 10) succeeds: an optional sign and then at
\* least one digit, nothing else.
SetStringOK(value) ==
    LET body == IF Len(value) > 0 /\ value[1] \in {"+", "-"}
                THEN SubSeq(value, 2, Len(value)) ELSE value
    IN  /\ Len(body) > 0
        /\ \A i \in 1..Len(body) : body[i] \in Digits

\* The value of one decimal digit.
DigitVal(d) ==
    CASE d = "0" -> 0 [] d = "1" -> 1 [] d = "2" -> 2 [] d = "3" -> 3
      [] d = "4" -> 4 [] d = "5" -> 5 [] d = "6" -> 6 [] d = "7" -> 7
      [] d = "8" -> 8 [] d = "9" -> 9

RECURSIVE DigitsValue(_, _)
\* The number a sequence of digits denotes, most significant digit first.
DigitsValue(ds, acc) ==
    IF ds = <<>> THEN acc
    ELSE DigitsValue(Tail(ds), 10 * acc + DigitVal(Head(ds)))

\* The big.Int that SetString(value, 10) leaves in amount when it succeeds.
SetStringValue(value) ==
    IF value[1] = "-" THEN 0 - DigitsValue(Tail(value), 0)
    ELSE IF value[1] = "+" THEN DigitsValue(Tail(value), 0)
    ELSE DigitsValue(value, 0)

\* The zero tokenData{}.
EmptyTokenData == [TX |-> "", TXType |-> "", Message |-> "", MessageHash |-> ""]

\* A JSON text is a sequence of tokens; an object is "{" k1 v1 ... kn vn "}".
IsObjectText(text) ==
    /\ Len(text) >= 2
    /\ text[1] = "{"
    /\ text[Len(text)] = "}"
    /\ (Len(text) - 2) % 2 = 0
    /\ \A i \in 2..(Len(text) - 1) : text[i] \notin {"{", "}"}

RECURSIVE DecodeFields(_, _, _)
\* Assign the members of an object text to a tokenData, left to right.
DecodeFields(text, i, td) ==
    IF i >= Len(text) THEN td
    ELSE LET k == text[i]
             v == text[i + 1]
             next == IF k = "tx" THEN [td EXCEPT !.TX = v]
                     ELSE IF k = "txtype" THEN [td EXCEPT !.TXType = v]
                     ELSE IF k = "message" THEN [td EXCEPT !.Message = v]
                     ELSE IF k = "messageHash" THEN [td EXCEPT !.MessageHash = v]
                     ELSE td
         IN  DecodeFields(text, i + 2, next)

\* json.Unmarshal([]byte(text), &tokenData) returns no error: the text is an
\* object and its "tx" and "message" members parse as UUIDs.
UnmarshalOK(text) ==
    /\ IsObjectText(text)
    /\ \A i \in 2..(Len(text) - 1) :
          (i % 2 = 0 /\ text[i] \in {"tx", "message"}) => IsUUID(text[i + 1])

\* Mutant: after a failed json.Unmarshal the handlers go on with what was
\* decoded so far.
UnmarshalTokenDataKeepsPartial(text) ==
    IF IsObjectText(text) THEN DecodeFields(text, 2, EmptyTokenData)
    ELSE EmptyTokenData

\* The tokenData the handlers go on with: the decoded one, or tokenData{}
\* when json.Unmarshal failed.
UnmarshalTokenData(text) ==
    IF UnmarshalOK(text) THEN DecodeFields(text, 2, EmptyTokenData)
    ELSE EmptyTokenData

\* Mutant: the transaction kind is not written.
MarshalTokenDataWithoutTXType(td) ==
    <<"{">>
    \o (IF td.TX # "" THEN <<"tx", td.TX>> ELSE <<>>)
    \o (IF td.Message # "" THEN <<"message", td.Message>> ELSE <<>>)
    \o (IF td.MessageHash # "" THEN <<"messageHash", td.MessageHash>> ELSE <<>>)
    \o <<"}">>

\* json.Marshal(tokenData{...}): members with omitempty are left out when
\* they are nil or empty.
MarshalTokenData(td) ==
    <<"{">>
    \o (IF td.TX # "" THEN <<"tx", td.TX>> ELSE <<>>)
    \o (IF td.TXType # "" THEN <<"txtype", td.TXType>> ELSE <<>>)
    \o (IF td.Message # "" THEN <<"message", td.Message>> ELSE <<>>)
    \o (IF td.MessageHash # "" THEN <<"messageHash", td.MessageHash>> ELSE <<>>)
    \o <<"}">>

\* What a handler did: the callback it invokes (or "none") and the record
\* it passes to it.
NoCall == [cb |-> "none", rec |-> <<>>]

\* blockchain.Event built by the handlers.
BlockchainEvent(data) ==
    [ProtocolID |-> data.blockchainId,
     BlockchainTXID |-> data.blockchainTxHash,
     Source |-> <<Name, ":", configuredName>>]

\* The zero blockchain.Event.
NoBlockchainEvent == [ProtocolID |-> "", BlockchainTXID |-> "", Source |-> <<>>]

\* Mutant: the success flag is not looked at.
handleReceiptAlwaysSucceeded(data) ==
    IF data.id = "" THEN NoCall
    ELSE IF ~IsUUID(data.id) THEN NoCall
    ELSE [cb |-> "TokenOpUpdate",
          rec |-> [opID |-> data.id,
                   replyType |-> OpStatusSucceeded,
                   transactionHash |-> data.transactionHash,
                   message |-> data.message]]

handleReceipt(data) ==
    IF data.id = "" THEN NoCall
    ELSE IF ~IsUUID(data.id) THEN NoCall
    ELSE [cb |-> "TokenOpUpdate",
          rec |-> [opID |-> data.id,
                   replyType |-> IF data.success THEN OpStatusSucceeded
                                 ELSE OpStatusFailed,
                   transactionHash |-> data.transactionHash,
                   message |-> data.message]]

\* Mutant: the pool is labelled with the plugin's name.
TokenPoolNamedByPlugin(data) ==
    LET poolData == UnmarshalTokenData(data.data)
        txType == IF poolData.TXType = "" THEN TransactionTypeTokenPool
                  ELSE poolData.TXType
    IN  [Type |-> data.type,
         PoolLocator |-> data.poolLocator,
         TX |-> [ID |-> poolData.TX, Type |-> txType],
         Connector |-> Name,
         Standard |-> data.standard,
         Symbol |-> data.symbol,
         Event |-> IF data.blockchainId # "" \/ data.blockchainTxHash # ""
                   THEN BlockchainEvent(data)
                   ELSE NoBlockchainEvent]

\* The tokens.TokenPool that handleTokenPoolCreate builds.
TokenPool(data) ==
    LET poolData == UnmarshalTokenData(data.data)
        txType == IF poolData.TXType = "" THEN TransactionTypeTokenPool
                  ELSE poolData.TXType
    IN  [Type |-> data.type,
         PoolLocator |-> data.poolLocator,
         TX |-> [ID |-> poolData.TX, Type |-> txType],
         Connector |-> configuredName,
         Standard |-> data.standard,
         Symbol |-> data.symbol,
         Event |-> IF data.blockchainId # "" \/ data.blockchainTxHash # ""
                   THEN BlockchainEvent(data)
                   ELSE NoBlockchainEvent]

\* Mutant: the pool locator is not checked.
handleTokenPoolCreateNoLocatorCheck(data) ==
    IF data.type = "" THEN NoCall
    ELSE [cb |-> "TokenPoolCreated", rec |-> TokenPool(data)]

handleTokenPoolCreate(data) ==
    IF data.type = "" \/ data.poolLocator = "" THEN NoCall
    ELSE [cb |-> "TokenPoolCreated", rec |-> TokenPool(data)]

\* The tokens.TokenTransfer that handleTokenTransfer builds.
TokenTransfer(t, data) ==
    LET transferData == UnmarshalTokenData(data.data)
        txType == IF transferData.TXType = "" THEN TransactionTypeTokenTransfer
                  ELSE transferData.TXType
    IN  [PoolLocator |-> data.poolLocator,
         Type |-> t,
         TokenIndex |-> data.tokenIndex,
         URI |-> data.uri,
         Connector |-> configuredName,
         From |-> data.from,
         To |-> data.to,
         Amount |-> SetStringValue(data.amount),
         Subject |-> data.subject,
         Key |-> data.signer,
         Message |-> transferData.Message,
         MessageHash |-> transferData.MessageHash,
         TX |-> [ID |-> transferData.TX, Type |-> txType],
         Event |-> BlockchainEvent(data)]

\* Mutant: an amount that does not parse is taken as zero.
handleTokenTransferZeroAmount(t, data) ==
    IF \/ data.subject = ""
       \/ data.poolLocator = ""
       \/ data.signer = ""
       \/ data.amount = <<>>
       \/ (t # TokenTransferTypeMint /\ data.from = "")
       \/ (t # TokenTransferTypeBurn /\ data.to = "")
    THEN NoCall
    ELSE [cb |-> "TokensTransferred",
          rec |-> TokenTransfer(t, IF SetStringOK(data.amount) THEN data
                                   ELSE [data EXCEPT !.amount = <<"0">>])]

\* Mutant: the endpoint checks of mint and burn are exchanged.
handleTokenTransferSwappedEndpoints(t, data) ==
    IF \/ data.subject = ""
       \/ data.poolLocator = ""
       \/ data.signer = ""
       \/ data.amount = <<>>
       \/ (t # TokenTransferTypeBurn /\ data.from = "")
       \/ (t # TokenTransferTypeMint /\ data.to = "")
    THEN NoCall
    ELSE IF ~SetStringOK(data.amount) THEN NoCall
    ELSE [cb |-> "TokensTransferred", rec |-> TokenTransfer(t, data)]

handleTokenTransfer(t, data) ==
    IF \/ data.subject = ""
       \/ data.poolLocator = ""
       \/ data.signer = ""
       \/ data.amount = <<>>
       \/ (t # TokenTransferTypeMint /\ data.from = "")
       \/ (t # TokenTransferTypeBurn /\ data.to = "")
    THEN NoCall
    ELSE IF ~SetStringOK(data.amount) THEN NoCall
    ELSE [cb |-> "TokensTransferred", rec |-> TokenTransfer(t, data)]

\* The tokens.TokenApproval that handleTokenApproval builds.
TokenApproval(data) ==
    LET transferData == UnmarshalTokenData(data.data)
        txType == IF transferData.TXType = "" THEN TransactionTypeTokenApproval
                  ELSE transferData.TXType
    IN  [PoolLocator |-> data.poolLocator,
         Connector |-> configuredName,
         Key |-> data.signer,
         Operator |-> data.operator,
         Approved |-> data.approved,
         Subject |-> data.subject,
         TX |-> [ID |-> transferData.TX, Type |-> txType],
         Event |-> BlockchainEvent(data)]

handleTokenApproval(data) ==
    IF \/ data.subject = ""
       \/ data.poolLocator = ""
       \/ data.signer = ""
       \/ data.operator = ""
    THEN NoCall
    ELSE [cb |-> "TokensApproved", rec |-> TokenApproval(data)]

\* Mutant: the default case of the switch falls into the pool handler.
DispatchUnknownAsPool(m) ==
    IF m.event = messageReceipt THEN handleReceipt(m.data)
    ELSE IF m.event = messageTokenMint
         THEN handleTokenTransfer(TokenTransferTypeMint, m.data)
    ELSE IF m.event = messageTokenBurn
         THEN handleTokenTransfer(TokenTransferTypeBurn, m.data)
    ELSE IF m.event = messageTokenTransfer
         THEN handleTokenTransfer(TokenTransferTypeTransfer, m.data)
    ELSE IF m.event = messageTokenApproval THEN handleTokenApproval(m.data)
    ELSE handleTokenPoolCreate(m.data)

\* The switch of eventLoop: the handler a decoded frame is dispatched to.
Dispatch(m) ==
    IF m.event = messageReceipt THEN handleReceipt(m.data)
    ELSE IF m.event = messageTokenPool THEN handleTokenPoolCreate(m.data)
    ELSE IF m.event = messageTokenMint
         THEN handleTokenTransfer(TokenTransferTypeMint, m.data)
    ELSE IF m.event = messageTokenBurn
         THEN handleTokenTransfer(TokenTransferTypeBurn, m.data)
    ELSE IF m.event = messageTokenTransfer
         THEN handleTokenTransfer(TokenTransferTypeTransfer, m.data)
    ELSE IF m.event = messageTokenApproval THEN handleTokenApproval(m.data)
    ELSE NoCall

\* Mutant: the acknowledgement does not depend on the envelope id.
ShouldAckEmptyID(e, m) == e = "nil" /\ m.event # messageReceipt

\* Mutant: the acknowledgement does not depend on err.
ShouldAckIgnoringErr(e, m) == m.event # messageReceipt /\ m.id # ""

\* Mutant: receipts are acknowledged like any other frame.
ShouldAckReceipts(e, m) == e = "nil" /\ m.id # ""

\* The condition under which eventLoop sends an acknowledgement.
ShouldAck(e, m) == e = "nil" /\ m.event # messageReceipt /\ m.id # ""

\* Mutant: the acknowledgement echoes the payload's id, not the envelope's.
AckFramePayloadID(m) == [event |-> "ack", data |-> [id |-> m.data.id]]

\* The acknowledgement frame eventLoop marshals for a frame.
AckFrame(m) == [event |-> "ack", data |-> [id |-> m.id]]

\* --------------------------------------------------------------- actions

\* No command is being called.
NoCommand ==
    [op |-> "none", opID |-> "", tx |-> [ID |-> "", Type |-> ""],
     message |-> "", messageHash |-> ""]

\* A command has not returned.
NoResult == [complete |-> FALSE, err |-> "none"]

\* The frame eventLoop is working on: the last one it took from Receive().
msg == received[Len(received)]

\* Mutant: the deferred Close is missing.
CloseOmitted == "connected"

\* defer ft.wsconn.Close()
Close == "closed"

\* Mutant: the URL is checked after the transports were constructed and
\* the loop launched.
InitResultLateURLCheck(url, wsNewOK) ==
    IF ~wsNewOK
    THEN [state |-> "wserr", client |-> "created", wsconn |-> "none", loops |-> 0]
    ELSE [state |-> IF url = "" THEN "cfgerr" ELSE "ok",
          client |-> "created", wsconn |-> "created", loops |-> 1]

\* Mutant: Init also connects the websocket.
InitResultConnects(url, wsNewOK) ==
    IF url = ""
    THEN [state |-> "cfgerr", client |-> "none", wsconn |-> "none", loops |-> 0]
    ELSE IF ~wsNewOK
    THEN [state |-> "wserr", client |-> "created", wsconn |-> "none", loops |-> 0]
    ELSE [state |-> "ok", client |-> "created", wsconn |-> "connected", loops |-> 1]

\* What Init leaves behind: its result, the command transport, the
\* websocket client and the number of event loops it launched. It returns
\* on an empty URL before anything is constructed, and on a failure of
\* wsclient.New after ffresty.New but before `go ft.eventLoop()`.
InitResult(url, wsNewOK) ==
    IF url = ""
    THEN [state |-> "cfgerr", client |-> "none", wsconn |-> "none", loops |-> 0]
    ELSE IF ~wsNewOK
    THEN [state |-> "wserr", client |-> "created", wsconn |-> "none", loops |-> 0]
    ELSE [state |-> "ok", client |-> "created", wsconn |-> "created", loops |-> 1]

\* Init(ctx, name, prefix, callbacks): fails on an empty URL, or when
\* wsclient.New fails; otherwise creates the websocket client and launches
\* eventLoop.
InitConnector ==
    /\ initState = "none"
    /\ \E name \in LoopConnectorNames : configuredName' = name
    /\ \E url \in {"", "http://tokens"}, wsNewOK \in BOOLEAN :
          LET r == InitResult(url, wsNewOK)
          IN  /\ configURL' = url
              /\ initState' = r.state
              /\ client' = r.client
              /\ wsconn' = r.wsconn
              /\ loopsLaunched' = r.loops
              /\ loopPc' = IF r.loops > 0 THEN "select" ELSE loopPc
    /\ UNCHANGED <<ctxCancelled, recvClosed, offered, err, received, log,
                   startErr, exitLog>>
    /\ UNCHANGED cmdVars

\* wsconn.Connect(): establishes the connection of a client that was
\* created and not closed; it may fail.
Connect(conn, ok) ==
    IF conn = "created" /\ ok THEN [conn |-> "connected", err |-> "nil"]
    ELSE IF conn = "connected" /\ ok THEN [conn |-> "connected", err |-> "nil"]
    ELSE [conn |-> conn, err |-> "err"]

\* Mutant: Start replaces a closed client by a new one and connects that.
StartReconnects ==
    /\ initState = "ok"
    /\ startErr = "none"
    /\ \E ok \in BOOLEAN :
          LET r == Connect(IF wsconn = "closed" THEN "created" ELSE wsconn, ok)
          IN  /\ wsconn' = (IF r.err = "nil" THEN r.conn ELSE wsconn)
              /\ startErr' = r.err
    /\ UNCHANGED <<initState, ctxCancelled, recvClosed, offered, loopPc, err,
                   received, log, exitLog>>
    /\ UNCHANGED <<client, loopsLaunched, configURL, configuredName>>
    /\ UNCHANGED cmdVars

\* Start(): return ft.wsconn.Connect(). The node starts a connector once.
Start ==
    /\ initState = "ok"
    /\ startErr = "none"
    /\ \E ok \in BOOLEAN :
          LET r == Connect(wsconn, ok)
          IN  /\ wsconn' = r.conn
              /\ startErr' = r.err
    /\ UNCHANGED <<initState, ctxCancelled, recvClosed, offered, loopPc, err,
                   received, log, exitLog>>
    /\ UNCHANGED <<client, loopsLaunched, configURL, configuredName>>
    /\ UNCHANGED cmdVars

\* The owner of ft.ctx cancels it.
CancelCtx ==
    /\ ~ctxCancelled
    /\ ctxCancelled' = TRUE
    /\ UNCHANGED <<initState, wsconn, recvClosed, offered, loopPc, err,
                   received, log, startErr, exitLog>>
    /\ UNCHANGED <<client, loopsLaunched, configURL, configuredName>>
    /\ UNCHANGED cmdVars

\* The peer delivers a frame: it becomes receivable on wsconn.Receive().
PeerSend ==
    /\ wsconn = "connected"
    /\ ~recvClosed
    /\ offered = <<>>
    /\ Len(received) < MaxFrames
    /\ \E f \in Frames : offered' = <<f>>
    /\ UNCHANGED <<initState, wsconn, ctxCancelled, recvClosed, loopPc, err,
                   received, log, startErr, exitLog>>
    /\ UNCHANGED <<client, loopsLaunched, configURL, configuredName>>
    /\ UNCHANGED cmdVars

\* The peer closes the channel wsconn.Receive() returns.
PeerClose ==
    /\ wsconn = "connected"
    /\ ~recvClosed
    /\ offered = <<>>
    /\ recvClosed' = TRUE
    /\ UNCHANGED <<initState, wsconn, ctxCancelled, offered, loopPc, err,
                   received, log, startErr, exitLog>>
    /\ UNCHANGED <<client, loopsLaunched, configURL, configuredName>>
    /\ UNCHANGED cmdVars

\* Mutant: the ctx.Done() case leaves the select but not the for loop.
LoopCtxDoneStaysInLoop ==
    /\ loopPc = "select"
    /\ ctxCancelled
    /\ UNCHANGED vars

\* select, case <-ctx.Done(): return (and the deferred Close).
LoopCtxDone ==
    /\ loopPc = "select"
    /\ ctxCancelled
    /\ loopPc' = "done"
    /\ exitLog' = "context cancelled"
    /\ wsconn' = Close
    /\ UNCHANGED <<initState, ctxCancelled, recvClosed, offered, err,
                   received, log, startErr>>
    /\ UNCHANGED <<client, loopsLaunched, configURL, configuredName>>
    /\ UNCHANGED cmdVars

\* select, case msgBytes, ok := <-Receive() with !ok: return.
LoopRecvClosed ==
    /\ loopPc = "select"
    /\ recvClosed
    /\ offered = <<>>
    /\ loopPc' = "done"
    /\ exitLog' = "receive channel closed"
    /\ wsconn' = Close
    /\ UNCHANGED <<initState, ctxCancelled, recvClosed, offered, err,
                   received, log, startErr>>
    /\ UNCHANGED <<client, loopsLaunched, configURL, configuredName>>
    /\ UNCHANGED cmdVars

\* Mutant: the error of json.Unmarshal is ignored.
AfterReceiveIgnoringDecodeError(f) ==
    IF Dispatch(f).cb # "none" THEN "callback" ELSE "ack"

\* Where eventLoop goes after it took frame f from Receive(): back to the
\* select when f does not parse, into the callback when the handler
\* invokes one, else to the acknowledgement with err == nil.
AfterReceive(f) ==
    IF ~f.parses THEN "select"
    ELSE IF Dispatch(f).cb # "none" THEN "callback"
    ELSE "ack"

\* Mutant: frames are taken and dispatched while a callback is running.
LoopReceiveConcurrent ==
    /\ loopPc \in {"select", "callback"}
    /\ offered # <<>>
    /\ LET f == offered[1]
           n == Len(received) + 1
       IN  /\ received' = Append(received, f)
           /\ offered' = <<>>
           /\ err' = "nil"
           /\ loopPc' = AfterReceive(f)
           /\ log' = IF AfterReceive(f) = "callback"
                     THEN Append(log, [op |-> "call", idx |-> n,
                                       cb |-> Dispatch(f).cb,
                                       rec |-> Dispatch(f).rec])
                     ELSE log
    /\ UNCHANGED <<initState, wsconn, ctxCancelled, recvClosed, startErr, exitLog>>
    /\ UNCHANGED <<client, loopsLaunched, configURL, configuredName>>
    /\ UNCHANGED cmdVars

\* select, case msgBytes, ok := <-Receive() with ok: decode the envelope,
\* dispatch it, and run the handler up to its callback invocation.
LoopReceive ==
    /\ loopPc = "select"
    /\ offered # <<>>
    /\ LET f == offered[1]
           n == Len(received) + 1
       IN  /\ received' = Append(received, f)
           /\ offered' = <<>>
           /\ err' = "nil"
           /\ loopPc' = AfterReceive(f)
           /\ log' = IF AfterReceive(f) = "callback"
                     THEN Append(log, [op |-> "call", idx |-> n,
                                       cb |-> Dispatch(f).cb,
                                       rec |-> Dispatch(f).rec])
                     ELSE log
    /\ UNCHANGED <<initState, wsconn, ctxCancelled, recvClosed, startErr, exitLog>>
    /\ UNCHANGED <<client, loopsLaunched, configURL, configuredName>>
    /\ UNCHANGED cmdVars

\* The results a callback can return: TokenOpUpdate returns nothing, the
\* others return an error or nil.
CallbackResults(cb) ==
    IF cb = "TokenOpUpdate" THEN {"nil"} ELSE {"nil", "cberr"}

\* Mutant: the handler's error is dropped.
HandlerErrSwallowed(e) == "nil"

\* The err eventLoop holds once the handler has returned with result e.
HandlerErr(e) == e

\* The callback returns, and with it the handler.
CallbackReturn ==
    /\ loopPc = "callback"
    /\ \E e \in CallbackResults(Dispatch(msg).cb) :
          /\ err' = HandlerErr(e)
          /\ log' = Append(log, [op |-> "ret", idx |-> Len(received), err |-> e])
    /\ loopPc' = "ack"
    /\ UNCHANGED <<initState, wsconn, ctxCancelled, recvClosed, offered,
                   received, startErr, exitLog>>
    /\ UNCHANGED <<client, loopsLaunched, configURL, configuredName>>
    /\ UNCHANGED cmdVars

\* Mutant: only a callback error ends the loop.
AfterAckIgnoringSendErr(e) == IF e = "cberr" THEN "done" ELSE "select"

\* Where eventLoop goes once err is final: it returns on an error.
AfterAck(e) == IF e # "nil" THEN "done" ELSE "select"

\* The rest of the loop body: send the acknowledgement when the frame is
\* eligible, and return (closing the connection) when err is not nil.
LoopAck ==
    /\ loopPc = "ack"
    /\ IF ShouldAck(err, msg)
       THEN \E sendOK \in BOOLEAN :
               /\ log' = Append(log, [op |-> "send", idx |-> Len(received),
                                      frame |-> AckFrame(msg), ok |-> sendOK])
               /\ err' = IF sendOK THEN "nil" ELSE "senderr"
       ELSE UNCHANGED <<log, err>>
    /\ loopPc' = AfterAck(err')
    /\ wsconn' = IF AfterAck(err') = "done" THEN Close ELSE wsconn
    /\ exitLog' = IF AfterAck(err') = "done" THEN "error" ELSE exitLog
    /\ UNCHANGED <<initState, ctxCancelled, recvClosed, offered, received, startErr>>
    /\ UNCHANGED <<client, loopsLaunched, configURL, configuredName>>
    /\ UNCHANGED cmdVars

Init ==
    /\ initState = "none"
    /\ wsconn = "none"
    /\ ctxCancelled = FALSE
    /\ recvClosed = FALSE
    /\ offered = <<>>
    /\ loopPc = "none"
    /\ err = "nil"
    /\ received = <<>>
    /\ log = <<>>
    /\ startErr = "none"
    /\ exitLog = "none"
    /\ client = "none"
    /\ loopsLaunched = 0
    /\ cmdPc = "idle"
    /\ cmd = NoCommand
    /\ cmdLog = <<>>
    /\ cmdResult = NoResult
    /\ configURL = "unset"
    /\ configuredName = ""

Next ==
    \/ InitConnector
    \/ Start
    \/ CancelCtx
    \/ PeerSend
    \/ PeerClose
    \/ LoopCtxDone
    \/ LoopRecvClosed
    \/ LoopReceive
    \/ CallbackReturn
    \/ LoopAck

Spec == Init /\ [][Next]_vars

\* One pass through the select of eventLoop, whichever case is taken.
LoopSelect == LoopCtxDone \/ LoopRecvClosed \/ LoopReceive

\* The goroutine of eventLoop is scheduled: a select with a ready case
\* proceeds, and callbacks and wsconn.Send return.
Fairness ==
    /\ WF_vars(LoopSelect)
    /\ WF_vars(CallbackReturn)
    /\ WF_vars(LoopAck)

SpecFair == Init /\ [][Next]_vars /\ Fairness

\* ------------------------------------------------------ the command path

PoolOps == {"createpool", "activatepool"}

TransferOps == {"mint", "burn", "transfer"}

\* The six command operations, by the last element of their REST path.
Ops == PoolOps \cup TransferOps \cup {"approval"}

\* Transaction kinds a caller passes in TX.Type; "" is the zero value.
TransactionTypes ==
    {"", TransactionTypeTokenPool, TransactionTypeTokenTransfer,
     TransactionTypeTokenApproval}

\* The calls a caller can make: operation, operation id, transaction
\* reference and, for mint, burn and transfer, message reference. The
\* other arguments are fixed, see Request.
Commands ==
    [op : Ops \ TransferOps, opID : UUIDs,
     tx : [ID : UUIDs \cup {""}, Type : TransactionTypes],
     message : {""}, messageHash : {""}]
    \cup
    [op : TransferOps, opID : UUIDs,
     tx : [ID : UUIDs \cup {""}, Type : TransactionTypes],
     message : {"", "uuid-2"}, messageHash : {"", "0xhash"}]

\* The decimal digit of a value 0..9.
DigitOf(n) ==
    CASE n = 0 -> "0" [] n = 1 -> "1" [] n = 2 -> "2" [] n = 3 -> "3"
      [] n = 4 -> "4" [] n = 5 -> "5" [] n = 6 -> "6" [] n = 7 -> "7"
      [] n = 8 -> "8" [] n = 9 -> "9"

RECURSIVE NatString(_)
\* The decimal text of a natural number.
NatString(n) ==
    IF n < 10 THEN <<DigitOf(n)>>
    ELSE Append(NatString(n \div 10), DigitOf(n % 10))

\* Amount.Int().String()
IntString(n) == IF n < 0 THEN <<"-">> \o NatString(0 - n) ELSE NatString(n)

\* The amount of the transfer a caller mints, burns or transfers.
CommandAmount == 100

\* The tokenData each operation marshals into the request's data; none for
\* ActivateTokenPool, whose request has no data member.
CommandTokenData(c) ==
    IF c.op \in TransferOps
    THEN [TX |-> c.tx.ID, TXType |-> c.tx.Type,
          Message |-> c.message, MessageHash |-> c.messageHash]
    ELSE [TX |-> c.tx.ID, TXType |-> c.tx.Type, Message |-> "", MessageHash |-> ""]

\* The body each operation posts, and the path it posts it to.
Request(c) ==
    IF c.op = "createpool"
    THEN [path |-> "/api/v1/createpool", type |-> "fungible",
          requestId |-> c.opID, signer |-> "0xsigner",
          data |-> MarshalTokenData(CommandTokenData(c)),
          name |-> "pool", symbol |-> "SYM"]
    ELSE IF c.op = "activatepool"
    THEN [path |-> "/api/v1/activatepool", requestId |-> c.opID,
          poolLocator |-> "pool1"]
    ELSE IF c.op = "mint"
    THEN [path |-> "/api/v1/mint", poolLocator |-> "pool1", tokenIndex |-> "",
          to |-> "0xto", amount |-> IntString(CommandAmount),
          requestId |-> c.opID, signer |-> "0xsigner",
          data |-> MarshalTokenData(CommandTokenData(c))]
    ELSE IF c.op = "burn"
    THEN [path |-> "/api/v1/burn", poolLocator |-> "pool1", tokenIndex |-> "",
          from |-> "0xfrom", amount |-> IntString(CommandAmount),
          requestId |-> c.opID, signer |-> "0xsigner",
          data |-> MarshalTokenData(CommandTokenData(c))]
    ELSE IF c.op = "transfer"
    THEN [path |-> "/api/v1/transfer", poolLocator |-> "pool1",
          tokenIndex |-> "", from |-> "0xfrom", to |-> "0xto",
          amount |-> IntString(CommandAmount), requestId |-> c.opID,
          signer |-> "0xsigner",
          data |-> MarshalTokenData(CommandTokenData(c))]
    ELSE [path |-> "/api/v1/approval", poolLocator |-> "pool1",
          signer |-> "0xsigner", operator |-> "0xoperator",
          approved |-> TRUE, requestId |-> c.opID,
          data |-> MarshalTokenData(CommandTokenData(c))]

\* The opaque data string of a request, <<>> when it has none.
RequestData(req) == IF "data" \in DOMAIN req THEN req.data ELSE <<>>

\* HTTP statuses the connector answers with.
Statuses == {200, 202, 404, 500}

\* A response body: bytes that parse as a JSON object or do not.
NoBody == [parses |-> FALSE, obj |-> EmptyPayload]

\* The bodies of a 200 response: not JSON, a complete pool that echoes the
\* request's data, a pool without locator, an object without members.
Bodies(req) ==
    {NoBody,
     [parses |-> TRUE, obj |-> EmptyPayload],
     [parses |-> TRUE, obj |-> [FullPayload EXCEPT !.data = RequestData(req)]],
     [parses |-> TRUE, obj |-> NoLocatorPayload]}

\* What Post can return for a request: a network error, or a response.
Responses(req) ==
    {[neterr |-> TRUE, status |-> 0, body |-> NoBody]}
    \cup [neterr : {FALSE}, status : {200}, body : Bodies(req)]
    \cup [neterr : {FALSE}, status : Statuses \ {200}, body : {NoBody}]

\* res.IsSuccess()
IsSuccess(status) == status > 199 /\ status < 300

\* Mutant: only a network error counts as a failure.
RestFailedNetOnly(resp) == resp.neterr

\* err != nil || !res.IsSuccess()
RestFailed(resp) == resp.neterr \/ ~IsSuccess(resp.status)

\* Mutant: every operation handles a synchronous 200.
HasSyncBranchAll(op) == TRUE

\* The operations whose code has the `res.StatusCode() == 200` branch.
HasSyncBranch(op) == op \in PoolOps

\* Mutant: a 200 always completes the operation, whatever its body.
CommandOutcomeAlwaysComplete(op, resp) ==
    IF RestFailed(resp)
    THEN [pc |-> "returned", complete |-> FALSE, err |-> "resterr", call |-> NoCall]
    ELSE IF HasSyncBranch(op) /\ resp.status = 200
    THEN [pc |-> "returned", complete |-> TRUE, err |-> "nil", call |-> NoCall]
    ELSE [pc |-> "returned", complete |-> FALSE, err |-> "nil", call |-> NoCall]

\* A command from the response up to its return or its callback
\* invocation: where the caller is, what was returned (if it returned) and
\* the callback handleTokenPoolCreate invokes (if it does).
CommandOutcome(op, resp) ==
    IF RestFailed(resp)
    THEN [pc |-> "returned", complete |-> FALSE, err |-> "resterr", call |-> NoCall]
    ELSE IF HasSyncBranch(op) /\ resp.status = 200
    THEN IF ~resp.body.parses
         THEN [pc |-> "returned", complete |-> FALSE, err |-> "parseerr",
               call |-> NoCall]
         ELSE IF handleTokenPoolCreate(resp.body.obj).cb = "none"
         THEN [pc |-> "returned", complete |-> TRUE, err |-> "nil", call |-> NoCall]
         ELSE [pc |-> "callback", complete |-> TRUE, err |-> "none",
               call |-> handleTokenPoolCreate(resp.body.obj)]
    ELSE [pc |-> "returned", complete |-> FALSE, err |-> "nil", call |-> NoCall]

\* Mutant: a command waits while the event loop is in a callback.
CmdIssueUnderLoopLock ==
    /\ cmdPc = "ready"
    /\ loopPc # "callback"
    /\ initState = "ok"
    /\ \E resp \in Responses(Request(cmd)) :
          LET o == CommandOutcome(cmd.op, resp)
          IN  /\ cmdPc' = o.pc
              /\ cmdResult' = [complete |-> o.complete, err |-> o.err]
              /\ cmdLog' = <<[op |-> "request", req |-> Request(cmd)],
                             [op |-> "response", resp |-> resp]>>
                           \o (IF o.call.cb # "none"
                               THEN <<[op |-> "call", cb |-> o.call.cb,
                                       rec |-> o.call.rec]>>
                               ELSE <<>>)
    /\ UNCHANGED <<initState, wsconn, ctxCancelled, recvClosed, offered, loopPc,
                   err, received, log, startErr, exitLog, client,
                   loopsLaunched, cmd, configURL, configuredName>>

\* The caller calls the command: the request is posted once, the response
\* arrives, and the command returns or enters the pool-created callback.
CmdIssue ==
    /\ cmdPc = "ready"
    /\ initState = "ok"
    /\ \E resp \in Responses(Request(cmd)) :
          LET o == CommandOutcome(cmd.op, resp)
          IN  /\ cmdPc' = o.pc
              /\ cmdResult' = [complete |-> o.complete, err |-> o.err]
              /\ cmdLog' = <<[op |-> "request", req |-> Request(cmd)],
                             [op |-> "response", resp |-> resp]>>
                           \o (IF o.call.cb # "none"
                               THEN <<[op |-> "call", cb |-> o.call.cb,
                                       rec |-> o.call.rec]>>
                               ELSE <<>>)
    /\ UNCHANGED <<initState, wsconn, ctxCancelled, recvClosed, offered, loopPc,
                   err, received, log, startErr, exitLog, client,
                   loopsLaunched, cmd, configURL, configuredName>>

\* Mutant: a callback error on the command path ends the event loop.
CmdCallbackReturnFailFast ==
    /\ cmdPc = "callback"
    /\ \E e \in CallbackResults("TokenPoolCreated") :
          /\ cmdLog' = Append(cmdLog, [op |-> "ret", err |-> e])
          /\ cmdResult' = [cmdResult EXCEPT !.err = e]
          /\ loopPc' = IF e = "nil" THEN loopPc ELSE "done"
          /\ wsconn' = IF e = "nil" THEN wsconn ELSE Close
          /\ exitLog' = IF e = "nil" THEN exitLog ELSE "error"
    /\ cmdPc' = "returned"
    /\ UNCHANGED <<initState, ctxCancelled, recvClosed, offered, err, received,
                   log, startErr, client, loopsLaunched, cmd, configURL,
                   configuredName>>

\* Mutant: the command is complete only when the callback succeeded.
CmdCallbackReturnCompleteOnSuccess ==
    /\ cmdPc = "callback"
    /\ \E e \in CallbackResults("TokenPoolCreated") :
          /\ cmdLog' = Append(cmdLog, [op |-> "ret", err |-> e])
          /\ cmdResult' = [complete |-> (e = "nil"), err |-> e]
    /\ cmdPc' = "returned"
    /\ UNCHANGED <<initState, wsconn, ctxCancelled, recvClosed, offered, loopPc,
                   err, received, log, startErr, exitLog, client,
                   loopsLaunched, cmd, configURL, configuredName>>

\* TokenPoolCreated returns on the caller's thread, and with it
\* handleTokenPoolCreate and the command: return true, <callback result>.
CmdCallbackReturn ==
    /\ cmdPc = "callback"
    /\ \E e \in CallbackResults("TokenPoolCreated") :
          /\ cmdLog' = Append(cmdLog, [op |-> "ret", err |-> e])
          /\ cmdResult' = [cmdResult EXCEPT !.err = e]
    /\ cmdPc' = "returned"
    /\ UNCHANGED <<initState, wsconn, ctxCancelled, recvClosed, offered, loopPc,
                   err, received, log, startErr, exitLog, client,
                   loopsLaunched, cmd, configURL, configuredName>>

\* The event kind that confirms an operation.
ConfirmationKind(op) ==
    IF op \in PoolOps THEN messageTokenPool
    ELSE IF op = "mint" THEN messageTokenMint
    ELSE IF op = "burn" THEN messageTokenBurn
    ELSE IF op = "transfer" THEN messageTokenTransfer
    ELSE messageTokenApproval

\* The confirmation of an accepted request: a complete event of the
\* operation's kind whose data is the request's data, unmodified.
Confirmation(op, req) ==
    [parses |-> TRUE, event |-> ConfirmationKind(op), id |-> "e1",
     data |-> [FullPayload EXCEPT !.data = RequestData(req)]]

\* The connector confirms an accepted command on the event channel.
PeerConfirm ==
    /\ cmdPc = "returned"
    /\ cmdResult.err = "nil"
    /\ wsconn = "connected"
    /\ ~recvClosed
    /\ offered = <<>>
    /\ received = <<>>
    /\ offered' = <<Confirmation(cmd.op, cmdLog[1].req)>>
    /\ UNCHANGED <<initState, wsconn, ctxCancelled, recvClosed, loopPc, err,
                   received, log, startErr, exitLog, client, loopsLaunched,
                   configURL, configuredName>>
    /\ UNCHANGED cmdVars

\* A started connector whose caller is about to call a command.
InitCmd ==
    /\ initState = "ok"
    /\ configURL = "http://tokens"
    /\ configuredName \in ConnectorNames
    /\ client = "created"
    /\ wsconn = "connected"
    /\ loopsLaunched = 1
    /\ startErr = "nil"
    /\ ctxCancelled = FALSE
    /\ recvClosed = FALSE
    /\ offered = <<>>
    /\ loopPc = "select"
    /\ err = "nil"
    /\ received = <<>>
    /\ log = <<>>
    /\ exitLog = "none"
    /\ cmd \in Commands
    /\ cmdPc = "ready"
    /\ cmdLog = <<>>
    /\ cmdResult = NoResult

NextCmd ==
    \/ CmdIssue
    \/ CmdCallbackReturn
    \/ PeerConfirm
    \/ LoopReceive
    \/ CallbackReturn
    \/ LoopAck

SpecCmd == InitCmd /\ [][NextCmd]_vars

\* ------------------------------------- commands beside the event loop

\* The commands of the interleaving specification: one operation id, no
\* message reference.
ConcCommands ==
    {c \in Commands : c.opID = "uuid-1" /\ c.message = "" /\ c.messageHash = ""}

\* The frames of the interleaving specification: a pool, a mint without
\* envelope id, a receipt.
ConcFrames ==
    {[parses |-> TRUE, event |-> messageTokenPool, id |-> "e1",
      data |-> FullPayload],
     [parses |-> TRUE, event |-> messageTokenMint, id |-> "",
      data |-> FullPayload],
     [parses |-> TRUE, event |-> messageReceipt, id |-> "e1",
      data |-> ReceiptPayload]}

\* A started connector to which the peer has sent a frame while a caller
\* is about to call a command.
InitConc ==
    /\ initState = "ok"
    /\ configURL = "http://tokens"
    /\ configuredName \in LoopConnectorNames
    /\ client = "created"
    /\ wsconn = "connected"
    /\ loopsLaunched = 1
    /\ startErr = "nil"
    /\ ctxCancelled = FALSE
    /\ recvClosed = FALSE
    /\ offered \in {<<f>> : f \in ConcFrames}
    /\ loopPc = "select"
    /\ err = "nil"
    /\ received = <<>>
    /\ log = <<>>
    /\ exitLog = "none"
    /\ cmd \in ConcCommands
    /\ cmdPc = "ready"
    /\ cmdLog = <<>>
    /\ cmdResult = NoResult

NextConc ==
    \/ CmdIssue
    \/ CmdCallbackReturn
    \/ LoopReceive
    \/ CallbackReturn
    \/ LoopAck

SpecConc == InitConc /\ [][NextConc]_vars

\* ------------------------------------------------- the payload decoders

TransferKinds == {messageTokenMint, messageTokenBurn, messageTokenTransfer}

\* Amount strings: absent, decimal, signed decimal, not a number.
Amounts == {<<>>, <<"1", "0">>, <<"-", "5">>, <<"1", "x">>}

\* Data strings that json.Unmarshal rejects as a tokenData: absent, not
\* JSON, an object whose "tx" is no UUID (after a "txtype" that is valid).
BadDataStrings ==
    {<<>>, <<"{", "tx">>,
     <<"{", "txtype", TransactionTypeTokenApproval, "tx", "not-a-uuid", "}">>}

\* Data strings: a tokenData text, and the rejected ones.
DataStrings ==
    {<<"{", "tx", "uuid-1", "txtype", TransactionTypeTokenPool, "}">>}
    \cup BadDataStrings

\* Transfer payloads: each required member present or absent, each kind of
\* amount and of data string.
TransferPayloads ==
    {[FullPayload EXCEPT !.subject = p.subject, !.poolLocator = p.poolLocator,
                         !.signer = p.signer, !.from = p.from, !.to = p.to,
                         !.amount = p.amount, !.data = p.data] :
       p \in [subject : {"", FullPayload.subject},
              poolLocator : {"", FullPayload.poolLocator},
              signer : {"", FullPayload.signer},
              from : {"", FullPayload.from},
              to : {"", FullPayload.to},
              amount : Amounts,
              data : DataStrings]}

\* Pool payloads: type and locator present or absent, each data string.
PoolPayloads ==
    {[FullPayload EXCEPT !.type = p.type, !.poolLocator = p.poolLocator,
                         !.data = p.data] :
       p \in [type : {"", FullPayload.type},
              poolLocator : {"", FullPayload.poolLocator},
              data : DataStrings]}

\* Approval payloads: each required member present or absent, each data
\* string.
ApprovalPayloads ==
    {[FullPayload EXCEPT !.subject = p.subject, !.poolLocator = p.poolLocator,
                         !.signer = p.signer, !.operator = p.operator,
                         !.data = p.data] :
       p \in [subject : {"", FullPayload.subject},
              poolLocator : {"", FullPayload.poolLocator},
              signer : {"", FullPayload.signer},
              operator : {"", FullPayload.operator},
              data : DataStrings]}

\* Receipt payloads: no id, an operation id, an id that is no UUID; the
\* success flag true, or false or absent (GetBool gives false for both);
\* with and without transaction hash and message.
ReceiptReplies ==
    {[EmptyPayload EXCEPT !.id = p.id, !.success = p.success,
                          !.transactionHash = p.transactionHash,
                          !.message = p.message] :
       p \in [id : {"", "uuid-1", "not-a-uuid"},
              success : BOOLEAN,
              transactionHash : {"", "0xabc"},
              message : {"", "reverted"}]}

\* The frames the peer can deliver in the decoder specification.
CodecFrames ==
    [parses : {TRUE}, event : TransferKinds, id : FrameIDs,
     data : TransferPayloads]
    \cup [parses : {TRUE}, event : {messageTokenPool}, id : FrameIDs,
          data : PoolPayloads]
    \cup [parses : {TRUE}, event : {messageTokenApproval}, id : FrameIDs,
          data : ApprovalPayloads]
    \cup [parses : {TRUE}, event : {messageReceipt}, id : FrameIDs,
          data : ReceiptReplies]

\* A started connector to which the peer has sent one frame.
InitCodec ==
    /\ initState = "ok"
    /\ configURL = "http://tokens"
    /\ configuredName \in ConnectorNames
    /\ client = "created"
    /\ wsconn = "connected"
    /\ loopsLaunched = 1
    /\ startErr = "nil"
    /\ ctxCancelled = FALSE
    /\ recvClosed = FALSE
    /\ offered \in {<<f>> : f \in CodecFrames}
    /\ loopPc = "select"
    /\ err = "nil"
    /\ received = <<>>
    /\ log = <<>>
    /\ exitLog = "none"
    /\ cmd = NoCommand
    /\ cmdPc = "idle"
    /\ cmdLog = <<>>
    /\ cmdResult = NoResult

NextCodec ==
    \/ LoopReceive
    \/ CallbackReturn
    \/ LoopAck

SpecCodec == InitCodec /\ [][NextCodec]_vars

\* ------------------------------------------------------------ properties

\* Positions of the history entries of kind op that belong to frame i.
Entries(op, i) == {p \in 1..Len(log) : log[p].op = op /\ log[p].idx = i}

\* Positions of all history entries of kind op.
AllEntries(op) == {p \in 1..Len(log) : log[p].op = op}

\* eventLoop is through with frame i: it is back at the select or returned.
Finished(i) == i < Len(received) \/ loopPc \in {"select", "done"}

\* Frame i was decoded and is eligible for an acknowledgement.
Eligible(i) ==
    /\ received[i].parses
    /\ received[i].event # messageReceipt
    /\ received[i].id # ""

\* The callback of frame i returned an error.
CallbackFailed(i) == \E p \in Entries("ret", i) : log[p].err # "nil"

\* C1: every frame that is not a receipt, has a non-empty identifier and
\* was processed without error gets exactly one acknowledgement
\* {event: "ack", data: {id}} with its own identifier handed to wsconn.Send
\* (never more than one at any time), and that Send comes after the return
\* of the frame's callback, when the frame had one.
AckExactlyOnceAfterCallback ==
    \A i \in 1..Len(received) :
        (Eligible(i) /\ ~CallbackFailed(i)) =>
            /\ Cardinality(Entries("send", i)) <= 1
            /\ Finished(i) => Cardinality(Entries("send", i)) = 1
            /\ \A p \in Entries("send", i) :
                  /\ log[p].frame = [event |-> "ack",
                                     data |-> [id |-> received[i].id]]
                  /\ \A q \in Entries("call", i) :
                        \E r \in Entries("ret", i) : q < r /\ r < p

\* A frame with identifier e2 went through its callback and was
\* acknowledged after an earlier frame had been acknowledged too.
AckExactlyOnceWitness ==
    /\ Len(received) = 2
    /\ loopPc = "select"
    /\ Eligible(1) /\ Eligible(2)
    /\ received[2].id = "e2"
    /\ Entries("call", 2) # {}
    /\ Entries("send", 1) # {}
    /\ Entries("send", 2) # {}

\* C2: when the pool-created, transfer-confirmed or approval-confirmed
\* callback has returned an error, nothing follows it in the history (no
\* acknowledgement of that frame or of any other, no further callback), no
\* later frame is taken from the channel, and the loop is on its way out:
\* it never returns to the select.
CallbackErrorTerminates ==
    \A p \in AllEntries("ret") :
        log[p].err # "nil" =>
            /\ p = Len(log)
            /\ log[p].idx = Len(received)
            /\ loopPc \in {"ack", "done"}
            /\ loopPc = "done" => exitLog = "error"

\* The loop returned on a callback error while the next frame was waiting.
CallbackErrorWitness ==
    /\ loopPc = "done"
    /\ err = "cberr"
    /\ offered # <<>>
    /\ Eligible(Len(received))

\* C3: every acknowledgement handed to wsconn.Send carries the identifier
\* of a frame received before, whose processing had completed without
\* error by then: its callback had returned nil, or the handler invoked
\* none (incomplete or unrecognized event).
AckOnlyAfterSuccess ==
    \A p \in AllEntries("send") :
        LET i == log[p].idx
        IN  /\ i \in 1..Len(received)
            /\ received[i].parses
            /\ log[p].frame.data.id = received[i].id
            /\ IF Dispatch(received[i]).cb = "none"
               THEN Entries("call", i) = {}
               ELSE /\ \E r \in Entries("ret", i) : r < p /\ log[r].err = "nil"
                    /\ \A r \in Entries("ret", i) : log[r].err = "nil"

\* An acknowledgement followed a callback that returned nil, and another
\* one an event that was dropped.
AckOnlyAfterSuccessWitness ==
    /\ Len(received) = 2
    /\ Dispatch(received[1]).cb # "none"
    /\ Dispatch(received[2]).cb = "none"
    /\ Entries("send", 1) # {}
    /\ Entries("send", 2) # {}

\* C4: frames are processed one at a time in arrival order: the history
\* entries are ordered by frame, every callback invocation is directly
\* followed by its own return (or is the one callback in progress), a
\* frame's acknowledgement is the last entry of the frame, and the
\* acknowledged identifiers are those of a subsequence of the arrivals.
InOrderOneAtATime ==
    /\ \A p, q \in 1..Len(log) :
          p < q => /\ log[p].idx <= log[q].idx
                   /\ (log[p].op = "send" => log[p].idx < log[q].idx)
    /\ \A p \in AllEntries("call") :
          IF p = Len(log) THEN loopPc = "callback" /\ log[p].idx = Len(received)
          ELSE log[p + 1].op = "ret" /\ log[p + 1].idx = log[p].idx
    /\ Cardinality(AllEntries("call")) - Cardinality(AllEntries("ret")) \in {0, 1}
    /\ \A i \in 1..Len(received) : Cardinality(Entries("call", i)) <= 1
    /\ \A p \in AllEntries("send") :
          log[p].frame.data.id = received[log[p].idx].id

\* Two frames went through their callbacks and were acknowledged, and a
\* third entry of the second frame exists while the first is complete.
InOrderWitness ==
    /\ Len(received) = 2
    /\ received[1].id = "e2"
    /\ received[2].id = "e1"
    /\ Entries("call", 1) # {} /\ Entries("send", 1) # {}
    /\ Entries("call", 2) # {} /\ Entries("send", 2) # {}

\* C5: when wsconn.Send of an acknowledgement has failed, the loop has
\* returned with an error and the connection is closed; the failed Send is
\* the last entry of the history (no retry, no later callback or
\* acknowledgement), no later frame was taken, and the callback of the
\* frame, when the handler invoked one, was invoked once and returned nil.
SendFailureTerminates ==
    \A p \in AllEntries("send") :
        ~log[p].ok =>
            LET i == log[p].idx
            IN  /\ p = Len(log)
                /\ i = Len(received)
                /\ loopPc = "done"
                /\ exitLog = "error"
                /\ wsconn = "closed"
                /\ Cardinality(Entries("send", i)) = 1
                /\ Cardinality(Entries("call", i)) =
                      (IF Dispatch(received[i]).cb = "none" THEN 0 ELSE 1)
                /\ \A r \in Entries("ret", i) : log[r].err = "nil"

\* The acknowledgement of a frame that went through its callback failed
\* while the next frame was waiting.
SendFailureWitness ==
    /\ err = "senderr"
    /\ loopPc = "done"
    /\ offered # <<>>
    /\ Entries("call", Len(received)) # {}

\* C6: no acknowledgement is ever handed to wsconn.Send for a receipt
\* frame, and a receipt never makes the loop return: while a receipt is
\* the last frame taken, err is nil and the loop has not logged an error
\* exit.
ReceiptNeverAcked ==
    /\ \A p \in AllEntries("send") : received[log[p].idx].event # messageReceipt
    /\ (Len(received) > 0 /\ msg.parses /\ msg.event = messageReceipt) =>
          /\ err = "nil"
          /\ exitLog # "error"
          /\ loopPc = "done" => (ctxCancelled \/ recvClosed)

\* The loop is back at the select, connection open, after a valid receipt
\* with an identifier and after a receipt without operation id.
ReceiptWitness ==
    /\ Len(received) = 2
    /\ received[1].event = messageReceipt /\ received[1].id = "e1"
    /\ Entries("call", 1) # {}
    /\ received[2].event = messageReceipt /\ received[2].id = "e1"
    /\ received[2].data.id = "not-a-uuid"
    /\ loopPc = "select"
    /\ wsconn = "connected"

\* The payload of a frame of kind k lacks a field the kind requires.
LacksRequired(k, data) ==
    \/ k = messageTokenPool /\ (data.type = "" \/ data.poolLocator = "")
    \/ /\ k \in {messageTokenMint, messageTokenBurn, messageTokenTransfer}
       /\ \/ data.subject = "" \/ data.poolLocator = "" \/ data.signer = ""
          \/ data.amount = <<>>
          \/ (k # messageTokenMint /\ data.from = "")
          \/ (k # messageTokenBurn /\ data.to = "")
    \/ /\ k = messageTokenApproval
       /\ \/ data.subject = "" \/ data.poolLocator = "" \/ data.signer = ""
          \/ data.operator = ""

\* Frame i is the last one taken, and the loop returned with an error
\* although the acknowledgement of frame i did not fail.
ErrorExitWithoutSendFailure(i) ==
    /\ i = Len(received)
    /\ exitLog = "error"
    /\ \A p \in Entries("send", i) : log[p].ok

\* C7: for a pool, mint, burn, transfer or approval frame whose payload
\* lacks a required field no callback is invoked; err stays nil up to the
\* acknowledgement, which is sent exactly once when the identifier is not
\* empty and not at all when it is; and the loop goes on: it returns with
\* an error only when that acknowledgement fails.
IncompleteEventDropped ==
    \A i \in 1..Len(received) :
        (received[i].parses /\ received[i].event \in TokenKinds
         /\ LacksRequired(received[i].event, received[i].data)) =>
            /\ Entries("call", i) = {}
            /\ (i = Len(received) /\ loopPc = "ack") => err = "nil"
            /\ loopPc # "callback" \/ i < Len(received)
            /\ Finished(i) =>
                  Cardinality(Entries("send", i)) =
                      (IF received[i].id = "" THEN 0 ELSE 1)
            /\ ~ErrorExitWithoutSendFailure(i)

\* Incomplete frames of two kinds were acknowledged and the loop is back
\* at the select.
IncompleteEventWitness ==
    /\ Len(received) = 2
    /\ received[1].event = messageTokenPool
    /\ received[2].event = messageTokenApproval
    /\ LacksRequired(received[1].event, received[1].data)
    /\ LacksRequired(received[2].event, received[2].data)
    /\ Entries("send", 1) # {} /\ Entries("send", 2) # {}
    /\ log[Len(log)].ok
    /\ loopPc = "select"

\* C8: a frame that does not decode as an envelope leaves no trace: no
\* callback, no acknowledgement; the loop is at once back at the select
\* with the connection as it was, and it never returns with an error on
\* account of that frame.
MalformedFrameDiscarded ==
    \A i \in 1..Len(received) :
        ~received[i].parses =>
            /\ Entries("call", i) = {}
            /\ Entries("send", i) = {}
            /\ i = Len(received) =>
                  /\ loopPc \in {"select", "done"}
                  /\ err = "nil"
                  /\ exitLog # "error"
                  /\ loopPc = "select" => wsconn = "connected"

\* After a frame that failed to decode with an identifier already stored,
\* the loop took and acknowledged the next frame.
MalformedFrameWitness ==
    /\ Len(received) = 2
    /\ ~received[1].parses
    /\ received[1].id = "e1"
    /\ Entries("send", 2) # {}
    /\ loopPc = "select"

\* The tags eventLoop's switch has a case for.
RecognizedKinds == TokenKinds \cup {messageReceipt}

\* C9: a decoded frame with an unrecognized tag invokes no callback, is
\* processed with err nil, is acknowledged exactly once when its identifier
\* is not empty (not at all when it is), and makes the loop return only
\* when that acknowledgement fails.
UnrecognizedKindAcked ==
    \A i \in 1..Len(received) :
        (received[i].parses /\ received[i].event \notin RecognizedKinds) =>
            /\ Entries("call", i) = {}
            /\ (i = Len(received) /\ loopPc = "ack") => err = "nil"
            /\ loopPc # "callback" \/ i < Len(received)
            /\ Finished(i) =>
                  Cardinality(Entries("send", i)) =
                      (IF received[i].id = "" THEN 0 ELSE 1)
            /\ \A p \in Entries("send", i) :
                  log[p].frame = [event |-> "ack",
                                  data |-> [id |-> received[i].id]]
            /\ ~ErrorExitWithoutSendFailure(i)

\* An unrecognized frame was acknowledged and the loop went on to take the
\* next frame.
UnrecognizedKindWitness ==
    /\ Len(received) = 2
    /\ received[1].parses
    /\ received[1].event \notin RecognizedKinds
    /\ Entries("send", 1) # {}

\* C10: once the loop is at the select with the context cancelled, it
\* invokes no further callback and sends no further acknowledgement, also
\* when a frame is receivable at that moment: no step from such a state
\* invokes a callback or takes a frame that is then acknowledged.
CancelledLoopDispatchesNothing ==
    [][(loopPc = "select" /\ ctxCancelled) =>
          (log' = log /\ ~(loopPc' = "ack" /\ ShouldAck(err', msg')))]_vars

\* eventLoop has been launched and has not returned.
LoopRunning == loopPc \notin {"none", "done"}

\* C11 (as claimed): when the context is cancelled or the peer closes the
\* receive channel while the loop is running, the loop eventually returns,
\* and it returns without having logged a processing error.
CancelOrCloseTerminatesWithoutError ==
    /\ (LoopRunning /\ (ctxCancelled \/ recvClosed)) ~> (loopPc = "done")
    /\ [][(LoopRunning /\ (ctxCancelled \/ recvClosed) /\ loopPc' = "done")
            => exitLog' # "error"]_vars

\* C11 (amended): when the context is cancelled or the peer closes the
\* receive channel while the loop is running, the loop eventually returns;
\* a return taken at the select logs the cancellation or the closed
\* channel, with err nil and nothing added to the history; an error is
\* logged only for a failed callback or a failed Send of the last frame.
CancelOrCloseTerminates ==
    /\ (LoopRunning /\ (ctxCancelled \/ recvClosed)) ~> (loopPc = "done")
    /\ [][(loopPc = "select" /\ loopPc' = "done") =>
            /\ exitLog' \in {"context cancelled", "receive channel closed"}
            /\ err' = "nil"
            /\ log' = log]_vars
    /\ [][(loopPc # "done" /\ exitLog' = "error") =>
            /\ loopPc = "ack"
            /\ err' \in {"cberr", "senderr"}
            /\ log'[Len(log')].idx = Len(received)]_vars

\* The loop processed a frame and then returned on the cancellation.
CancelOrCloseWitness ==
    /\ loopPc = "done"
    /\ exitLog = "context cancelled"
    /\ ctxCancelled
    /\ Len(log) > 0

\* C12: whenever eventLoop has returned, on whichever path, the websocket
\* connection is closed.
LoopTerminatedImpliesClosed == loopPc = "done" => wsconn = "closed"

\* The loop returned on a callback error of a frame received on an
\* established connection.
LoopTerminatedWitness ==
    /\ loopPc = "done"
    /\ err = "cberr"
    /\ startErr = "nil"
    /\ wsconn = "closed"

\* C13: once Init was called with an empty URL it has returned the
\* configuration error and nothing else ever exists or happens: no command
\* transport, no websocket client, no event loop, no frame taken, no
\* callback invoked on the event path or the command path.
EmptyURLInitHasNoEffect ==
    configURL = "" =>
        /\ initState = "cfgerr"
        /\ client = "none"
        /\ wsconn = "none"
        /\ loopsLaunched = 0
        /\ loopPc = "none"
        /\ received = <<>>
        /\ log = <<>>
        /\ cmdLog = <<>>
        /\ startErr = "none"

\* Init failed on the empty URL and the context was cancelled afterwards.
EmptyURLInitWitness ==
    /\ configURL = ""
    /\ initState = "cfgerr"
    /\ ctxCancelled

\* C14: a successful Init has launched exactly one event loop, and Start
\* adds none; the connection is established only by a Start that returned
\* nil, and a Start that returned an error left it unestablished; as long
\* as Start has not been called the loop is running (or has returned on a
\* cancellation) without any frame taken, callback invoked or
\* acknowledgement sent.
InitLaunchesStartConnects ==
    /\ loopsLaunched = (IF initState = "ok" THEN 1 ELSE 0)
    /\ wsconn = "connected" => startErr = "nil"
    /\ startErr = "err" => wsconn # "connected"
    /\ (initState = "ok" /\ startErr = "none") =>
          /\ loopPc \in {"select", "done"}
          /\ loopPc = "done" => exitLog = "context cancelled"
          /\ wsconn \in {"created", "closed"}
          /\ offered = <<>>
          /\ received = <<>>
          /\ log = <<>>

\* After Init and a successful Start the single loop has processed a frame.
InitLaunchesStartConnectsWitness ==
    /\ initState = "ok"
    /\ loopsLaunched = 1
    /\ startErr = "nil"
    /\ wsconn = "connected"
    /\ Len(log) > 0


\* ------------------------------------------------- command properties

\* The positions of the command history that hold entries of kind o.
CmdEntries(o) == {i \in DOMAIN cmdLog : cmdLog[i].op = o}

\* The response the issued command got.
CmdResponse == cmdLog[2].resp

\* The command got a network error or a status outside 200..299.
CmdFailed == CmdResponse.neterr \/ CmdResponse.status < 200 \/ CmdResponse.status > 299

\* The command got status 200.
CmdStatus200 == ~CmdResponse.neterr /\ CmdResponse.status = 200

\* C15 as claimed: a create-pool or activate-pool command returns (not
\* complete, error) without callback on failure, invokes the pool-created
\* callback and returns complete on every status 200, and returns (not
\* complete, no error) without callback on any other success status.
PoolCommandOutcomes ==
    (cmd.op \in PoolOps /\ cmdPc = "returned") =>
        /\ CmdFailed =>
              /\ ~cmdResult.complete
              /\ cmdResult.err \notin {"nil", "none"}
              /\ CmdEntries("call") = {}
        /\ CmdStatus200 =>
              /\ cmdResult.complete
              /\ Cardinality(CmdEntries("call")) = 1
              /\ \A i \in CmdEntries("call") : cmdLog[i].cb = "TokenPoolCreated"
        /\ (~CmdFailed /\ ~CmdStatus200) =>
              /\ ~cmdResult.complete
              /\ cmdResult.err = "nil"
              /\ CmdEntries("call") = {}

\* C15 amended: as claimed for failures and for success statuses other
\* than 200. On status 200 a body that does not decode makes the command
\* return (not complete, parse error) without callback; a body that
\* decodes makes it return complete, and the pool-created callback is
\* invoked, once, on the caller's thread and with the pool of the body,
\* exactly when the body has a type and a pool locator; the error returned
\* is then the callback's result, and none when no callback is invoked.
PoolCommandOutcomesDecoded ==
    (cmd.op \in PoolOps /\ cmdPc = "returned") =>
        /\ CmdFailed =>
              /\ ~cmdResult.complete
              /\ cmdResult.err = "resterr"
              /\ CmdEntries("call") = {}
        /\ (CmdStatus200 /\ ~CmdResponse.body.parses) =>
              /\ ~cmdResult.complete
              /\ cmdResult.err = "parseerr"
              /\ CmdEntries("call") = {}
        /\ (CmdStatus200 /\ CmdResponse.body.parses) =>
              /\ cmdResult.complete
              /\ IF CmdResponse.body.obj.type # ""
                    /\ CmdResponse.body.obj.poolLocator # ""
                 THEN /\ Len(cmdLog) = 4
                      /\ cmdLog[3].op = "call"
                      /\ cmdLog[3].cb = "TokenPoolCreated"
                      /\ cmdLog[3].rec.PoolLocator = CmdResponse.body.obj.poolLocator
                      /\ cmdLog[3].rec.Type = CmdResponse.body.obj.type
                      /\ cmdLog[4].op = "ret"
                      /\ cmdResult.err = cmdLog[4].err
                 ELSE /\ CmdEntries("call") = {}
                      /\ cmdResult.err = "nil"
        /\ (~CmdFailed /\ ~CmdStatus200) =>
              /\ ~cmdResult.complete
              /\ cmdResult.err = "nil"
              /\ CmdEntries("call") = {}

\* C15 witness: an activate-pool command got a 200 with a complete pool,
\* invoked the pool-created callback and returned complete.
PoolCommandWitness ==
    /\ cmd.op = "activatepool"
    /\ cmdPc = "returned"
    /\ CmdStatus200
    /\ cmdResult = [complete |-> TRUE, err |-> "nil"]
    /\ CmdEntries("call") # {}

\* C16: mint, burn, transfer and approval never take the synchronous
\* branch: whatever the response, 200 with a complete pool body included,
\* they invoke no callback and build no record, report no completion, and
\* return only the transport error (on failure) or nothing.
NoSyncBranchForTransfers ==
    cmd.op \notin PoolOps =>
        /\ cmdPc # "callback"
        /\ CmdEntries("call") = {}
        /\ CmdEntries("ret") = {}
        /\ ~cmdResult.complete
        /\ cmdPc = "returned" =>
              cmdResult.err = (IF CmdFailed THEN "resterr" ELSE "nil")

\* C16 witness: a mint got status 200 with a complete pool in the body and
\* returned without error.
NoSyncBranchWitness ==
    /\ cmd.op = "mint"
    /\ cmdPc = "returned"
    /\ CmdStatus200
    /\ CmdResponse.body.parses
    /\ CmdResponse.body.obj.poolLocator # ""
    /\ cmdResult.err = "nil"

\* C17: for all six operations a network failure or a non-success status
\* is returned as a transport error: one request was sent and no more, no
\* callback was invoked, no record was built, nothing completed.
FailureIsTransportError ==
    /\ Cardinality(CmdEntries("request")) <= 1
    /\ (cmdPc = "returned" /\ CmdFailed) =>
          /\ cmdResult = [complete |-> FALSE, err |-> "resterr"]
          /\ Cardinality(CmdEntries("request")) = 1
          /\ cmdLog[1].req = Request(cmd)
          /\ Len(cmdLog) = 2

\* C17 witness: a create-pool command got status 500 and returned the
\* transport error.
FailureWitness ==
    /\ cmd.op = "createpool"
    /\ cmdPc = "returned"
    /\ ~CmdResponse.neterr
    /\ CmdResponse.status = 500
    /\ cmdResult.err = "resterr"

\* The event loop's invocation for the confirmation frame, if any.
ConfirmationCalls == Entries("call", 1)

\* The command's request carries a data string and the connector's
\* confirmation of it reached a callback.
RoundTripDone ==
    /\ cmdPc = "returned"
    /\ "data" \in DOMAIN Request(cmd)
    /\ Len(received) = 1
    /\ received[1].data.data = Request(cmd).data
    /\ ConfirmationCalls # {}

\* C18 as claimed: the data string a command encodes, echoed unmodified on
\* the confirmation event and decoded by the handler, yields exactly the
\* transaction id and kind the caller passed.
RoundTripExact ==
    RoundTripDone =>
        \A i \in ConfirmationCalls : log[i].rec.TX = cmd.tx

\* The kind a handler falls back to when the data names none.
DefaultKind(op) ==
    IF op \in PoolOps THEN TransactionTypeTokenPool
    ELSE IF op \in TransferOps THEN TransactionTypeTokenTransfer
    ELSE TransactionTypeTokenApproval

\* C18 amended: the round trip yields exactly the transaction id, and the
\* transaction kind when the caller passed one; an empty kind is left out of
\* the string and comes back as the kind the handler defaults to.
RoundTripKeepsNamedKind ==
    RoundTripDone =>
        \A i \in ConfirmationCalls :
            /\ log[i].rec.TX.ID = cmd.tx.ID
            /\ log[i].rec.TX.Type = (IF cmd.tx.Type = "" THEN DefaultKind(cmd.op)
                                     ELSE cmd.tx.Type)

\* C18 witness: a create-pool command for an approval transaction was
\* confirmed and the pool handler decoded that id and kind.
RoundTripWitness ==
    /\ RoundTripDone
    /\ cmd.op = "createpool"
    /\ cmd.tx = [ID |-> "uuid-1", Type |-> TransactionTypeTokenApproval]
    /\ \E i \in ConfirmationCalls : log[i].rec.TX = cmd.tx

\* C19 as claimed: each of the six operations posts a request that carries
\* the operation id as requestId and the data string embedding the
\* transaction reference and, for mint, burn and transfer, the message
\* reference.
RequestCarriesIdAndData ==
    \A i \in CmdEntries("request") :
        /\ cmdLog[i].req.requestId = cmd.opID
        /\ "data" \in DOMAIN cmdLog[i].req
        /\ UnmarshalTokenData(RequestData(cmdLog[i].req)).TX = cmd.tx.ID
        /\ UnmarshalTokenData(RequestData(cmdLog[i].req)).TXType = cmd.tx.Type
        /\ cmd.op \in TransferOps =>
              /\ UnmarshalTokenData(RequestData(cmdLog[i].req)).Message = cmd.message
              /\ UnmarshalTokenData(RequestData(cmdLog[i].req)).MessageHash
                    = cmd.messageHash

\* ------------------------------------------------- decoder properties

\* The payload has subject, pool locator, signer and a decimal amount.
HasTransferBasics(d) ==
    /\ d.subject # ""
    /\ d.poolLocator # ""
    /\ d.signer # ""
    /\ d.amount # <<>>
    /\ SetStringOK(d.amount)

\* The endpoints a transfer of each kind must name.
EndpointsPresent(kind, d) ==
    /\ kind # messageTokenMint => d.from # ""
    /\ kind # messageTokenBurn => d.to # ""

\* C20: a mint, burn or transfer payload with subject, pool locator, signer
\* and amount is passed to the transfer callback, once, exactly when it
\* names the endpoints its kind requires: "to" for a mint, "from" for a
\* burn, both for a transfer. No record handed to the callback lacks "from"
\* unless it is a mint, or "to" unless it is a burn.
TransferEndpointConstraints ==
    /\ (Len(received) = 1 /\ received[1].parses
        /\ received[1].event \in TransferKinds
        /\ HasTransferBasics(received[1].data)) =>
          IF EndpointsPresent(received[1].event, received[1].data)
          THEN /\ Cardinality(Entries("call", 1)) = 1
               /\ \A i \in Entries("call", 1) : log[i].cb = "TokensTransferred"
          ELSE Entries("call", 1) = {}
    /\ \A i \in AllEntries("call") :
          log[i].cb = "TokensTransferred" =>
              /\ log[i].rec.Type # TokenTransferTypeMint => log[i].rec.From # ""
              /\ log[i].rec.Type # TokenTransferTypeBurn => log[i].rec.To # ""

\* C20 witness: a mint without "from" reached the transfer callback.
TransferEndpointWitness ==
    /\ Len(received) = 1
    /\ received[1].event = messageTokenMint
    /\ received[1].data.from = ""
    /\ \E i \in Entries("call", 1) :
          /\ log[i].cb = "TokensTransferred"
          /\ log[i].rec.Type = TokenTransferTypeMint
          /\ log[i].rec.From = ""

\* C21: a mint, burn or transfer frame whose amount is not a base-10
\* integer is skipped: the transfer callback is not invoked, err is nil at
\* the acknowledgement, which is sent exactly once when the identifier is
\* not empty and not at all when it is, and the loop goes on: it returns
\* with an error only when that acknowledgement fails.
UnparseableAmountSkipped ==
    \A i \in 1..Len(received) :
        (received[i].parses /\ received[i].event \in TransferKinds
         /\ received[i].data.amount \in {<<"1", "x">>}) =>
            /\ Entries("call", i) = {}
            /\ Entries("ret", i) = {}
            /\ loopPc # "callback" \/ i < Len(received)
            /\ (i = Len(received) /\ loopPc = "ack") => err = "nil"
            /\ Finished(i) =>
                  Cardinality(Entries("send", i)) =
                      (IF received[i].id = "" THEN 0 ELSE 1)
            /\ ~ErrorExitWithoutSendFailure(i)

\* C21 witness: a burn with every required member and the amount "1x" was
\* acknowledged and the loop is back at the select.
UnparseableAmountWitness ==
    /\ Len(received) = 1
    /\ received[1].event = messageTokenBurn
    /\ ~LacksRequired(received[1].event, received[1].data)
    /\ received[1].data.amount = <<"1", "x">>
    /\ \E p \in Entries("send", 1) : log[p].ok
    /\ loopPc = "select"

\* The transaction kind a handler takes when the data names none.
DefaultKindOfEvent(k) ==
    IF k = messageTokenPool THEN TransactionTypeTokenPool
    ELSE IF k = messageTokenApproval THEN TransactionTypeTokenApproval
    ELSE TransactionTypeTokenTransfer

\* Frame i is a pool, transfer or approval event with every required
\* member (and a decimal amount).
CompleteEvent(i) ==
    /\ received[i].parses
    /\ received[i].event \in TokenKinds
    /\ ~LacksRequired(received[i].event, received[i].data)
    /\ received[i].event \in TransferKinds =>
          received[i].data.amount \in {<<"1", "0">>, <<"-", "5">>}

\* C22: for a pool, transfer or approval event with every required member
\* whose data string is missing or does not decode, the callback is still
\* invoked exactly once, with an empty transaction id and the default
\* transaction kind of the event, and the handler's error is the callback's
\* result.
CorruptDataNonFatal ==
    \A i \in 1..Len(received) :
        (CompleteEvent(i) /\ received[i].data.data \in BadDataStrings) =>
            /\ Cardinality(Entries("call", i)) = 1
            /\ \A p \in Entries("call", i) :
                  log[p].rec.TX = [ID |-> "",
                                   Type |-> DefaultKindOfEvent(received[i].event)]
            /\ Cardinality(Entries("ret", i)) <= 1
            /\ \A p \in Entries("ret", i) :
                  /\ log[p].err \in {"nil", "cberr"}
                  /\ (i = Len(received) /\ loopPc = "ack") => err = log[p].err
                  /\ (log[p].err = "cberr" /\ Finished(i)) =>
                        (i = Len(received) /\ exitLog = "error" /\ err = "cberr")

\* C22 witness: an approval whose data has a "tx" that is no UUID reached
\* the approval callback with the default reference, and the callback
\* returned an error.
CorruptDataWitness ==
    /\ Len(received) = 1
    /\ received[1].event = messageTokenApproval
    /\ received[1].data.data =
          <<"{", "txtype", TransactionTypeTokenApproval, "tx", "not-a-uuid", "}">>
    /\ \E p \in Entries("call", 1) :
          log[p].rec.TX = [ID |-> "", Type |-> TransactionTypeTokenApproval]
    /\ \E p \in Entries("ret", 1) : log[p].err = "cberr"
    /\ loopPc = "done"

\* C23: a receipt whose id is empty or no operation id invokes no
\* callback; any other receipt invokes the receipt-update callback exactly
\* once, with that operation id, status succeeded exactly when the success
\* flag is true and failed otherwise, and the payload's transaction hash
\* and message.
ReceiptDecoded ==
    \A i \in 1..Len(received) :
        (received[i].parses /\ received[i].event = messageReceipt) =>
            IF received[i].data.id \in {"", "not-a-uuid"}
            THEN Entries("call", i) = {}
            ELSE /\ Cardinality(Entries("call", i)) = 1
                 /\ \A p \in Entries("call", i) :
                       /\ log[p].cb = "TokenOpUpdate"
                       /\ log[p].rec.opID = received[i].data.id
                       /\ log[p].rec.replyType = OpStatusSucceeded
                             <=> received[i].data.success
                       /\ log[p].rec.replyType = OpStatusFailed
                             <=> ~received[i].data.success
                       /\ log[p].rec.transactionHash
                             = received[i].data.transactionHash
                       /\ log[p].rec.message = received[i].data.message

\* C23 witness: a receipt without success flag and with a message reached
\* the receipt-update callback as failed.
ReceiptDecodedWitness ==
    /\ Len(received) = 1
    /\ received[1].event = messageReceipt
    /\ received[1].data.id = "uuid-1"
    /\ ~received[1].data.success
    /\ \E p \in Entries("call", 1) :
          /\ log[p].rec.replyType = OpStatusFailed
          /\ log[p].rec.message = "reverted"

\* The callbacks that are passed a pool, transfer or approval record.
RecordCallbacks == {"TokenPoolCreated", "TokensTransferred", "TokensApproved"}

\* C24: every pool, transfer and approval record passed to a callback, by
\* the event loop or by a command on its synchronous path, carries the
\* name Init stored as the connector's configured name; and once Init has
\* run no step changes that name.
RecordsCarryConfiguredName ==
    /\ [](/\ \A p \in AllEntries("call") :
                log[p].cb \in RecordCallbacks =>
                    log[p].rec.Connector = configuredName
          /\ \A p \in CmdEntries("call") :
                cmdLog[p].rec.Connector = configuredName
          /\ initState # "none" => configuredName \in ConnectorNames)
    /\ [][initState # "none" => configuredName' = configuredName]_vars

\* C24 witness: the connector named erc721 passed a pool to the callback
\* on the synchronous path of a command and another on the event path.
RecordsCarryConfiguredNameWitness ==
    /\ configuredName = "erc721"
    /\ \E p \in CmdEntries("call") : cmdLog[p].rec.Connector = "erc721"
    /\ \E p \in AllEntries("call") :
          log[p].cb = "TokenPoolCreated" /\ log[p].rec.Connector = "erc721"

\* C28: create-pool and activate-pool return complete exactly when the
\* status is 200 and the body decodes, whatever the pool handler does: with
\* the callback's error when the callback fails, and with no error when the
\* body lacks type or pool locator and no callback was invoked.
CompleteIffDecoded200 ==
    (cmd.op \in PoolOps /\ cmdPc = "returned") =>
        /\ cmdResult.complete <=> (CmdStatus200 /\ CmdResponse.body.parses)
        /\ \A p \in CmdEntries("ret") :
              cmdResult = [complete |-> TRUE, err |-> cmdLog[p].err]
        /\ (CmdStatus200 /\ CmdResponse.body.parses
            /\ (CmdResponse.body.obj.type = ""
                \/ CmdResponse.body.obj.poolLocator = "")) =>
              /\ CmdEntries("call") = {}
              /\ cmdResult = [complete |-> TRUE, err |-> "nil"]

\* C28 witness: a create-pool command got a 200 with a complete pool, the
\* pool-created callback failed, and the command returned complete with
\* the callback's error.
CompleteIffDecoded200Witness ==
    /\ cmd.op = "createpool"
    /\ cmdPc = "returned"
    /\ CmdStatus200
    /\ \E p \in CmdEntries("ret") : cmdLog[p].err = "cberr"
    /\ cmdResult = [complete |-> TRUE, err |-> "cberr"]

\* The lifecycle state of the event channel client. Connecting is the
\* Start step, which leads to Receiving or fails back to Disconnected.
Phase ==
    IF wsconn = "none" THEN "NotCreated"
    ELSE IF wsconn = "created" THEN "Disconnected"
    ELSE IF wsconn = "closed" THEN "Closed"
    ELSE IF loopPc = "ack" THEN "Acknowledging"
    ELSE "Receiving"

\* The steps of the lifecycle; Closed is entered from every state in which
\* the loop runs.
LifecycleSteps ==
    {<<"NotCreated", "Disconnected">>, <<"Disconnected", "Receiving">>,
     <<"Receiving", "Acknowledging">>, <<"Acknowledging", "Receiving">>,
     <<"Disconnected", "Closed">>, <<"Receiving", "Closed">>,
     <<"Acknowledging", "Closed">>}

EmptyIdDispatchedNotAcked ==
    \A i \in 1..Len(received) :
        (received[i].parses /\ received[i].event \in TokenKinds
         /\ received[i].id = ""
         /\ ~LacksRequired(received[i].event, received[i].data)) =>
            /\ Cardinality(Entries("call", i)) = 1
            /\ Entries("send", i) = {}
            /\ Finished(i) => Cardinality(Entries("ret", i)) = 1
            /\ \A p \in Entries("ret", i) :
                  /\ (log[p].err = "nil" /\ Finished(i)) =>
                        ~(i = Len(received) /\ exitLog = "error")
                  /\ (log[p].err # "nil" /\ Finished(i)) =>
                        /\ i = Len(received)
                        /\ loopPc = "done"
                        /\ exitLog = "error"
                        /\ err = "cberr"
                        /\ wsconn = "closed"

\* C26 witness: a mint without envelope identifier was passed to the
\* callback, which succeeded; nothing was sent, and the loop took the next
\* frame.
EmptyIdWitness ==
    /\ Len(received) = 2
    /\ received[1].event = messageTokenMint
    /\ received[1].id = ""
    /\ \E p \in Entries("ret", 1) : log[p].err = "nil"
    /\ Entries("send", 1) = {}

\* C27: the synchronous command path leaves the event channel alone: no
\* step of a command sends a frame, moves the event loop, or closes the
\* connection, also when the pool-created callback fails on that path (the
\* error goes to the caller only); every acknowledgement is sent by the
\* event loop, for a frame it received.
SyncPathLeavesEventChannel ==
    /\ [][cmdVars' # cmdVars =>
            UNCHANGED <<wsconn, loopPc, err, exitLog, log, received, offered>>]_vars
    /\ [](\A p \in AllEntries("send") :
            /\ log[p].idx \in 1..Len(received)
            /\ log[p].frame.data.id = received[log[p].idx].id)
    /\ [](exitLog = "error" =>
            \E p \in 1..Len(log) :
                \/ log[p].op = "ret" /\ log[p].err = "cberr"
                \/ log[p].op = "send" /\ ~log[p].ok)

\* C27 witness: the pool-created callback failed on the synchronous path
\* of a command, which returned that error, while the event loop, having
\* acknowledged a frame, is at its select with the connection open.
SyncPathWitness ==
    /\ cmdPc = "returned"
    /\ cmdResult = [complete |-> TRUE, err |-> "cberr"]
    /\ wsconn = "connected"
    /\ loopPc = "select"
    /\ exitLog = "none"
    /\ \E p \in Entries("send", 1) : log[p].ok

\* C29: nothing makes the command path and the event path wait for each
\* other: a command that is ready can be issued and a callback on the
\* command path can return whatever the event loop is doing, and the event
\* loop can take a frame and return from its callback whatever the command
\* is doing; only the event loop's own callbacks are serialized, at most
\* one of them being in progress.
NoMutualExclusion ==
    /\ cmdPc = "ready" => ENABLED CmdIssue
    /\ cmdPc = "callback" => ENABLED CmdCallbackReturn
    /\ (loopPc = "select" /\ offered # <<>>) => ENABLED LoopReceive
    /\ loopPc = "callback" => ENABLED CallbackReturn
    /\ Cardinality(AllEntries("call")) - Cardinality(AllEntries("ret"))
          = (IF loopPc = "callback" THEN 1 ELSE 0)

\* C29 witness: the pool-created callback invoked from the 200 response of
\* an activate-pool command and a callback invoked by the event loop are
\* in progress at the same time.
ConcurrentCallbacksWitness ==
    /\ cmd.op = "activatepool"
    /\ cmdPc = "callback"
    /\ cmdLog[Len(cmdLog)].op = "call"
    /\ loopPc = "callback"
    /\ log[Len(log)].op = "call"

====
